---- MODULE Spec2Model ----
(***************************************************************************)
(* Model of services/flight_manager.py: the booking engine (book_flight)   *)
(* run by concurrent request handlers, each with its own database session, *)
(* and the paginated search (search_flights), over one shared flight table. *)
(***************************************************************************)
EXTENDS Integers, Sequences, FiniteSets, TLC

(* ------------------------------ bounds --------------------------------- *)
\* number of concurrent request handlers (each owns one Session)
NumProcs == 2
\* negative num_seats is only submitted while the targeted counter is below this
MaxSeats == 3
\* largest num_seats submitted
MaxNumSeats == 2
\* search: largest page / page_size requested
MaxPage == 4
MaxPageSize == 2

Procs == 1..NumProcs

(* ------------------------------ data ----------------------------------- *)
SeatTypes == {"economy", "business", "first_class"}
\* seat_type is an unvalidated str: one unrecognized value stands for the rest
SeatTypeInputs == SeatTypes \cup {"premium"}
NumSeatsInputs == (-1)..MaxNumSeats

None == [none |-> TRUE]

\* datetimes are minutes since midnight of day 0; a date is a day number
MinutesPerDay == 24 * 60

\* datetime.combine(d, time.min) and datetime.combine(d, time.max)
DayStart(d) == d * MinutesPerDay
DayEnd(d) == d * MinutesPerDay + (MinutesPerDay - 1)

\* calculate_times: departure at hour:minute of flight_date, arrival after
\* the drawn duration
CalculateTimesBackwards(flight_date, hour, minute, duration) ==
    LET departure_time == DayStart(flight_date) + hour * 60 + minute
    IN [departure_time |-> departure_time,
        arrival_time |-> departure_time - duration]

CalculateTimes(flight_date, hour, minute, duration) ==
    LET departure_time == DayStart(flight_date) + hour * 60 + minute
    IN [departure_time |-> departure_time,
        arrival_time |-> departure_time + duration]

\* a row of the Flight table, with the columns generate_flights fills in
MkFlight(id, fn, al, o, d, date, hour, minute, dur, se, sb, sf, ce, cb, cf) ==
    LET t == CalculateTimes(date, hour, minute, dur) IN
    [flight_id |-> id, flight_number |-> fn, airline |-> al,
     origin |-> o, destination |-> d,
     departure_time |-> t.departure_time, arrival_time |-> t.arrival_time,
     date |-> date,
     open_seats_economy |-> se, open_seats_business |-> sb,
     open_seats_first_class |-> sf,
     economy_seat_cost |-> ce, business_seat_cost |-> cb,
     first_class_cost |-> cf]

\* the column book_flight tests and decrements for a recognized seat_type
SeatsOf(flight, seat_type) ==
    CASE seat_type = "economy"     -> flight.open_seats_economy
      [] seat_type = "business"    -> flight.open_seats_business
      [] seat_type = "first_class" -> flight.open_seats_first_class

\* the column book_flight multiplies by num_seats for a recognized seat_type
CostOfMixed(flight, seat_type) ==
    CASE seat_type = "economy"     -> flight.economy_seat_cost
      [] seat_type = "business"    -> flight.economy_seat_cost
      [] seat_type = "first_class" -> flight.first_class_cost

CostOf(flight, seat_type) ==
    CASE seat_type = "economy"     -> flight.economy_seat_cost
      [] seat_type = "business"    -> flight.business_seat_cost
      [] seat_type = "first_class" -> flight.first_class_cost

\* flight.open_seats_<seat_type> -= num_seats on the session's object
DecrementWrongClass(flight, seat_type, num_seats) ==
    CASE seat_type = "economy" ->
           [flight EXCEPT !.open_seats_business = @ - num_seats]
      [] seat_type = "business" ->
           [flight EXCEPT !.open_seats_first_class = @ - num_seats]
      [] seat_type = "first_class" ->
           [flight EXCEPT !.open_seats_economy = @ - num_seats]

Decrement(flight, seat_type, num_seats) ==
    CASE seat_type = "economy" ->
           [flight EXCEPT !.open_seats_economy = @ - num_seats]
      [] seat_type = "business" ->
           [flight EXCEPT !.open_seats_business = @ - num_seats]
      [] seat_type = "first_class" ->
           [flight EXCEPT !.open_seats_first_class = @ - num_seats]

\* the branch conditions of the if/elif chain: recognized class with enough seats
EnoughOffByOne(flight, seat_type, num_seats) ==
    /\ seat_type \in SeatTypes
    /\ SeatsOf(flight, seat_type) + 1 >= num_seats

Enough(flight, seat_type, num_seats) ==
    /\ seat_type \in SeatTypes
    /\ SeatsOf(flight, seat_type) >= num_seats

(* ---------------------------- return values ----------------------------- *)
\* "Flight not found."
NotFoundResult == [type |-> "str", text |-> "Flight not found."]

\* f"Not enough {seat_type} seats available."
NotEnoughResultAnonymous(seat_type) ==
    [type |-> "str", text |-> "Not enough {} seats available.",
     seat_type |-> "economy"]

NotEnoughResultInvalidClass(seat_type) ==
    IF seat_type \in SeatTypes
      THEN [type |-> "str", text |-> "Not enough {} seats available.",
            seat_type |-> seat_type]
      ELSE [type |-> "str", text |-> "Invalid seat type {}.",
            seat_type |-> seat_type]

NotEnoughResult(seat_type) ==
    [type |-> "str", text |-> "Not enough {} seats available.",
     seat_type |-> seat_type]

\* {"message": success_message, "flight_info": flight}
SuccessResult(flight, seat_type, num_seats, total_cost) ==
    [type |-> "dict",
     text |-> "Successfully booked {} {} seat(s) on {} flight on {} from {} to {}. Total cost: ${}.",
     num_seats |-> num_seats, seat_type |-> seat_type,
     airline |-> flight.airline, date |-> flight.date,
     origin |-> flight.origin, destination |-> flight.destination,
     total_cost |-> total_cost,
     flight_info |-> flight]

(* ------------------------------ state ---------------------------------- *)
VARIABLES
    db,      \* the Flight table: flight_id -> committed row
    db0,     \* the table as it was before any request ran (never changes)
    pc,      \* per handler: "idle", "commit", "done"
    args,    \* per handler: the arguments of the call in progress
    sess,    \* per handler: the Flight object in its session, and as loaded
    result,  \* per handler: the value the call returned
    spc,     \* the search request: "idle" or "done"
    sres,    \* what search_flights returned (or raised)
    gen      \* the generate_flights call: its position, arguments and loop state

vars == <<db, db0, pc, args, sess, result, spc, sres, gen>>

\* no generate_flights call is running
GenIdle == [pc |-> "idle", input |-> None, num_flights |-> 0, created |-> 0,
            base |-> 0, returned |-> None]

\* two generated flights (values inside the generator's ranges)
FlightA == MkFlight(1, "AA342", "Phantom", "JFK", "LAX", 1, 10, 0, 90,
                    3, 1, 0, 100, 700, 2000)
FlightB == MkFlight(2, "ZQ100", "VirtualJet", "JFK", "LAX", 1, 0, 30, 45,
                    1, 0, 2, 50, 500, 1500)

BookingStores == { <<FlightA, FlightB>> }

\* ids a caller may pass: every id of the table and one that is absent
FlightIdInputs == 1..(Len(CHOOSE s \in BookingStores : TRUE) + 1)

Init ==
    /\ db \in BookingStores
    /\ db0 = db
    /\ pc = [p \in Procs |-> "idle"]
    /\ args = [p \in Procs |-> None]
    /\ sess = [p \in Procs |-> None]
    /\ result = [p \in Procs |-> None]
    /\ spc = "idle"
    /\ sres = None
    /\ gen = GenIdle

(* ---------------------------- book_flight ------------------------------ *)
\* db.query(Flight).filter(Flight.flight_id == flight_id).first()
QueryFirstUnfiltered(table, flight_id) == table[1]

QueryFirst(table, flight_id) ==
    IF flight_id \in DOMAIN table THEN table[flight_id] ELSE None

\* the if/elif/else chain on the object the query loaded: the branch taken
\* lowers the counter of the session's object, which keeps the column values
\* it was loaded with; the else branch returns the message. Nothing here
\* touches the database, so the chain runs in the step of the query.
BookCheck(p, flight, seat_type, num_seats) ==
    IF Enough(flight, seat_type, num_seats)
      THEN /\ sess' = [sess EXCEPT ![p] =
                          [loaded |-> flight,
                           flight |-> Decrement(flight, seat_type, num_seats)]]
           /\ pc' = [pc EXCEPT ![p] = "commit"]
           /\ UNCHANGED result
      ELSE /\ result' = [result EXCEPT ![p] = NotEnoughResult(seat_type)]
           /\ pc' = [pc EXCEPT ![p] = "done"]
           /\ UNCHANGED sess

\* a request enters book_flight(flight_id, seat_type, num_seats, db):
\* flight = db.query(...).first(); if not flight: return "Flight not found.";
\* otherwise the if/elif/else chain on the loaded object
BookRead(p, flight_id, seat_type, num_seats) ==
    /\ pc[p] = "idle"
    /\ (num_seats < 0 /\ flight_id \in DOMAIN db /\ seat_type \in SeatTypes)
          => SeatsOf(db[flight_id], seat_type) < MaxSeats
    /\ args' = [args EXCEPT ![p] = [flight_id |-> flight_id,
                                    seat_type |-> seat_type,
                                    num_seats |-> num_seats]]
    /\ LET flight == QueryFirst(db, flight_id) IN
       IF flight # None
         THEN BookCheck(p, flight, seat_type, num_seats)
         ELSE /\ result' = [result EXCEPT ![p] = NotFoundResult]
              /\ pc' = [pc EXCEPT ![p] = "done"]
              /\ UNCHANGED sess
    /\ UNCHANGED <<db, db0, spc, sres, gen>>

\* db.commit(): the unit of work issues UPDATE flight SET <column> = <value of
\* the session's object> WHERE flight_id = ... for the attributes whose value
\* differs from the loaded one; the other columns of the row are not written
CommitRow(row, loaded, flight) ==
    [row EXCEPT
       !.open_seats_economy =
          IF flight.open_seats_economy # loaded.open_seats_economy
            THEN flight.open_seats_economy ELSE @,
       !.open_seats_business =
          IF flight.open_seats_business # loaded.open_seats_business
            THEN flight.open_seats_business ELSE @,
       !.open_seats_first_class =
          IF flight.open_seats_first_class # loaded.open_seats_first_class
            THEN flight.open_seats_first_class ELSE @]

\* the table after the UPDATE ... WHERE flight_id = <the object's identity>
CommitTableNoWhere(table, flight_id, loaded, flight) ==
    [i \in DOMAIN table |-> CommitRow(table[i], loaded, flight)]

CommitTable(table, flight_id, loaded, flight) ==
    [table EXCEPT ![flight_id] = CommitRow(@, loaded, flight)]

\* db.commit(), then build the success message and return the dict; the
\* commit expires the object, so the attributes read for the message and
\* returned as flight_info are those of the committed row
BookCommit(p) ==
    /\ pc[p] = "commit"
    /\ LET a == args[p]
           f == sess[p].flight
           \* total_cost was computed in the branch, from the session's object
           total_cost == CostOf(f, a.seat_type) * a.num_seats
           committed == CommitTable(db, a.flight_id, sess[p].loaded, f)
       IN /\ db' = committed
          /\ result' = [result EXCEPT ![p] =
                           SuccessResult(committed[a.flight_id], a.seat_type,
                                         a.num_seats, total_cost)]
    /\ sess' = [sess EXCEPT ![p] = None]
    /\ pc' = [pc EXCEPT ![p] = "done"]
    /\ UNCHANGED <<db0, args, spc, sres, gen>>

\* the caller has taken the returned value; the handler serves the next request
BookReturn(p) ==
    /\ pc[p] = "done"
    /\ pc' = [pc EXCEPT ![p] = "idle"]
    /\ result' = [result EXCEPT ![p] = None]
    /\ args' = [args EXCEPT ![p] = None]
    /\ UNCHANGED <<db, db0, sess, spc, sres, gen>>

BookStep(p) ==
    \/ \E flight_id \in FlightIdInputs, seat_type \in SeatTypeInputs,
          num_seats \in NumSeatsInputs :
            BookRead(p, flight_id, seat_type, num_seats)
    \/ BookCommit(p)

\* NumProcs requests, one per handler, run concurrently
Next == \E p \in Procs : BookStep(p)

Spec == Init /\ [][Next]_vars

\* one handler serves request after request
NextSeq == BookStep(1) \/ BookReturn(1)

SpecSeq == Init /\ [][NextSeq]_vars

(* --------------------------- search_flights ---------------------------- *)
\* an Optional value is <<>> (None) or <<v>>
Nothing == <<>>
Some(v) == <<v>>

\* Python truth of an Optional[str]: None and "" are false
TruthyStr(opt) == opt # Nothing /\ opt[1] # ""

\* min_cost and max_cost arrive as numbers that need not be whole: a value
\* is kept in halves, Float(w, h) = w + h/2
Float(whole, halves) == 2 * whole + halves

\* int(x): the fraction is dropped, rounding toward zero
IntOf(x) == IF x >= 0 THEN x \div 2 ELSE -((-x) \div 2)

\* min_cost = int(criteria.min_cost) if criteria.min_cost is not None else 0
\* max_cost = int(criteria.max_cost) if ... is not None else float('inf')
\* Flight.<class cost column>.between(min_cost, max_cost)
CostBetween(cost, min_cost, max_cost) ==
    /\ cost >= (IF min_cost # Nothing THEN IntOf(min_cost[1]) ELSE 0)
    /\ (max_cost = Nothing \/ cost <= IntOf(max_cost[1]))

\* the conjunction of the filters applied to the query
Matches(f, criteria) ==
    /\ f.departure_time >= DayStart(criteria.start_date)
    /\ f.departure_time <= DayEnd(criteria.end_date)
    /\ f.origin = criteria.origin
    /\ f.destination = criteria.destination
    /\ TruthyStr(criteria.flight_number)
          => f.flight_number = criteria.flight_number[1]
    /\ TruthyStr(criteria.airline) => f.airline = criteria.airline[1]
    /\ (criteria.start_time # Nothing /\ criteria.end_time # Nothing)
          => /\ f.departure_time >= criteria.start_time[1]
             /\ f.departure_time <= criteria.end_time[1]
    /\ TruthyStr(criteria.seat_type)
          => CASE criteria.seat_type[1] = "economy" ->
                    CostBetween(f.economy_seat_cost,
                                criteria.min_cost, criteria.max_cost)
               [] criteria.seat_type[1] = "business" ->
                    CostBetween(f.business_seat_cost,
                                criteria.min_cost, criteria.max_cost)
               [] criteria.seat_type[1] = "first_class" ->
                    CostBetween(f.first_class_cost,
                                criteria.min_cost, criteria.max_cost)
               [] OTHER -> TRUE

\* the rows the filtered query selects, in the table's order
Query(table, criteria) == SelectSeq(table, LAMBDA f : Matches(f, criteria))

\* total_pages = (total_count + page_size - 1) // page_size
TotalPagesFloor(total_count, page_size) == total_count \div page_size

TotalPages(total_count, page_size) ==
    (total_count + page_size - 1) \div page_size

\* query.offset(offset).limit(page_size).all(), offset >= 0
OffsetLimitSkipsOne(rows, offset, limit) ==
    SubSeq(rows, offset + 2,
           IF offset + 1 + limit < Len(rows) THEN offset + 1 + limit
           ELSE Len(rows))

OffsetLimit(rows, offset, limit) ==
    SubSeq(rows, offset + 1,
           IF offset + limit < Len(rows) THEN offset + limit ELSE Len(rows))

\* the dict returned when total_count == 0
NoFlightsResult(page) ==
    [type |-> "dict",
     message |-> "There were no flights found for the search criteria.",
     flights |-> <<>>, page |-> page, total_pages |-> 0]

\* the dict returned when page > total_pages
OutOfRangeResult(page, total_pages) ==
    [type |-> "dict",
     message |-> "The requested page exceeds the total number of available pages.",
     flights |-> <<>>, page |-> page, total_pages |-> total_pages]

\* the dict returned with a page of rows
PageResult(flights, page, total_pages) ==
    [type |-> "dict", query_results |-> Len(flights), flights |-> flights,
     page |-> page, total_pages |-> total_pages]

\* an exception leaves search_flights
Raised(error) == [type |-> "raise", error |-> error]

\* the values a call search_flights(criteria, db, page, page_size) can produce
SearchFlights(table, criteria, page, page_size) ==
    LET rows == Query(table, criteria)
        total_count == Len(rows)
    IN IF total_count = 0 THEN {NoFlightsResult(page)}
       ELSE IF page_size = 0 THEN {Raised("ZeroDivisionError")}
       ELSE LET total_pages == TotalPages(total_count, page_size)
                offset == (page - 1) * page_size
            IN IF page > total_pages
                 THEN {OutOfRangeResult(page, total_pages)}
               ELSE IF offset < 0
                 \* OFFSET of a negative number: the database either rejects
                 \* the statement or reads it as 0
                 THEN {Raised("DBAPIError"),
                       PageResult(OffsetLimit(rows, 0, page_size),
                                  page, total_pages)}
               ELSE {PageResult(OffsetLimit(rows, offset, page_size),
                                page, total_pages)}

\* largest table searched
MaxFlights == 3

\* generated flights that differ in the columns the filters look at
SearchPool ==
    { MkFlight(0, "AA342", "Phantom", "JFK", "LAX", 1, 10, 0, 90,
               3, 1, 0, 100, 700, 2000),
      MkFlight(0, "ZQ100", "VirtualJet", "JFK", "LAX", 1, 0, 30, 45,
               0, 0, 2, 50, 500, 1500),
      MkFlight(0, "AA342", "Phantom", "JFK", "LAX", 2, 23, 59, 600,
               1, 0, 2, 500, 1500, 3000),
      MkFlight(0, "AA342", "Phantom", "BOS", "LAX", 1, 10, 0, 30,
               3, 1, 0, 100, 700, 2000) }

\* tables of up to MaxFlights generated rows, flight_id assigned in order
SearchStores ==
    UNION { { [i \in 1..n |-> [rows[i] EXCEPT !.flight_id = i]] :
                rows \in [1..n -> SearchPool] } : n \in 0..MaxFlights }

\* the search requests submitted
CostCriteria ==
    {[seat_type |-> Nothing, min_cost |-> Nothing, max_cost |-> Nothing],
     [seat_type |-> Some("business"), min_cost |-> Some(Float(700, 0)),
      max_cost |-> Nothing],
     [seat_type |-> Some("first_class"), min_cost |-> Nothing,
      max_cost |-> Some(Float(2000, 0))],
     [seat_type |-> Some("premium"), min_cost |-> Some(Float(100, 0)),
      max_cost |-> Some(Float(500, 0))],
     [seat_type |-> Some("economy"), min_cost |-> Some(Float(100, 1)),
      max_cost |-> Nothing]}
    \cup [seat_type : {Some("economy")},
          min_cost : {Nothing, Some(Float(100, 0))},
          max_cost : {Nothing, Some(Float(500, 0))}]

CriteriaInputs ==
    { [origin |-> "JFK", destination |-> "LAX",
       start_date |-> 1, end_date |-> e,
       flight_number |-> fn, airline |-> al,
       start_time |-> t[1], end_time |-> t[2],
       seat_type |-> cc.seat_type,
       min_cost |-> cc.min_cost, max_cost |-> cc.max_cost] :
      e \in 1..2,
      fn \in {Nothing, Some("AA342")},
      al \in {Nothing, Some("VirtualJet")},
      t \in { <<Nothing, Nothing>>,
              <<Some(DayStart(1)), Some(DayStart(1) + 10 * 60)>> },
      cc \in CostCriteria }

PageInputs == (-1)..MaxPage
PageSizeInputs == 0..MaxPageSize

\* a request runs search_flights(criteria, db, page, page_size)
SearchDropsSoldOut(criteria, page, page_size) ==
    /\ spc = "idle"
    /\ sres' \in { [criteria |-> criteria, page |-> page,
                    page_size |-> page_size, returned |-> r] :
                   r \in SearchFlights(db, criteria, page, page_size) }
    /\ spc' = "done"
    /\ db' = SelectSeq(db, LAMBDA f : f.open_seats_economy > 0)
    /\ UNCHANGED <<db0, pc, args, sess, result, gen>>

Search(criteria, page, page_size) ==
    /\ spc = "idle"
    /\ sres' \in { [criteria |-> criteria, page |-> page,
                    page_size |-> page_size, returned |-> r] :
                   r \in SearchFlights(db, criteria, page, page_size) }
    /\ spc' = "done"
    /\ UNCHANGED <<db, db0, pc, args, sess, result, gen>>

\* the caller has taken the result
SearchReturn ==
    /\ spc = "done"
    /\ spc' = "idle"
    /\ sres' = None
    /\ UNCHANGED <<db, db0, pc, args, sess, result, gen>>

InitSearch ==
    /\ db \in SearchStores
    /\ db0 = db
    /\ pc = [p \in Procs |-> "idle"]
    /\ args = [p \in Procs |-> None]
    /\ sess = [p \in Procs |-> None]
    /\ result = [p \in Procs |-> None]
    /\ spc = "idle"
    /\ sres = None
    /\ gen = GenIdle

NextSearch ==
    \/ /\ spc = "idle"
       /\ \E criteria \in CriteriaInputs, page \in PageInputs,
             page_size \in PageSizeInputs : Search(criteria, page, page_size)
    \/ SearchReturn

SpecSearch == InitSearch /\ [][NextSearch]_vars

(* -------------------------- generate_flights --------------------------- *)
\* the bounds of the random.randint draws
HourMax == 23
MinuteMax == 59
DurationMin == 30
DurationMax == 600
EconomySeatsMax == 200
BusinessSeatsMax == 50
FirstClassSeatsMax == 20
EconomyCostMin == 50
EconomyCostMax == 500
BusinessCostMin == 500
BusinessCostMax == 1500
FirstClassCostMin == 1500
FirstClassCostMax == 3000

\* random.randint(a, b) at one of its two ends
RandInt(a, b, pick) == IF pick = "low" THEN a ELSE b

\* the random draws of one loop iteration: all at their low end, all at their
\* high end, or late and long with no seats at the highest prices
Draws ==
    { [flight_number |-> "AA100", airline |-> "Phantom",
       time |-> "low", seats |-> "low", cost |-> "low"],
      [flight_number |-> "ZZ999", airline |-> "AeroFiction",
       time |-> "high", seats |-> "high", cost |-> "high"],
      [flight_number |-> "AA100", airline |-> "AeroFiction",
       time |-> "high", seats |-> "low", cost |-> "high"] }

\* new_flight = Flight(...) of one iteration; the store assigns flight_id
NewFlight(id, flight_input, draw) ==
    MkFlight(id, draw.flight_number, draw.airline,
             flight_input.origin, flight_input.destination, flight_input.date,
             RandInt(0, HourMax, draw.time), RandInt(0, MinuteMax, draw.time),
             RandInt(DurationMin, DurationMax, draw.time),
             RandInt(0, EconomySeatsMax, draw.seats),
             RandInt(0, BusinessSeatsMax, draw.seats),
             RandInt(0, FirstClassSeatsMax, draw.seats),
             RandInt(EconomyCostMin, EconomyCostMax, draw.cost),
             RandInt(BusinessCostMin, BusinessCostMax, draw.cost),
             RandInt(FirstClassCostMin, FirstClassCostMax, draw.cost))

FlightInputs ==
    { [origin |-> "JFK", destination |-> "LAX", date |-> 1],
      [origin |-> "BOS", destination |-> "SFO", date |-> 2] }

NumFlightsInputs == 0..MaxFlights

\* a request enters generate_flights(flight_input, num_flights, db)
GenCall(flight_input, num_flights) ==
    /\ gen.pc = "idle"
    /\ Len(db) + num_flights <= MaxFlights
    /\ gen' = [pc |-> "loop", input |-> flight_input,
               num_flights |-> num_flights, created |-> 0,
               base |-> Len(db), returned |-> None]
    /\ UNCHANGED <<db, db0, pc, args, sess, result, spc, sres>>

\* one iteration whose db.add / db.commit / db.refresh go through: the row
\* is in the table from then on
GenAdd(draw) ==
    /\ gen.pc = "loop"
    /\ gen.created < gen.num_flights
    /\ db' = Append(db, NewFlight(Len(db) + 1, gen.input, draw))
    /\ gen' = [gen EXCEPT !.created = @ + 1]
    /\ UNCHANGED <<db0, pc, args, sess, result, spc, sres>>

\* the table after db.commit() of an iteration raised: the rows committed by
\* the earlier iterations stay, the row being added is not stored
AfterFailedCommitRollsBack(table, base) == SubSeq(table, 1, base)

AfterFailedCommit(table, base) == table

\* one iteration whose db.commit() raises: the exception leaves the function
GenFail ==
    /\ gen.pc = "loop"
    /\ gen.created < gen.num_flights
    /\ db' = AfterFailedCommit(db, gen.base)
    /\ gen' = [gen EXCEPT !.pc = "done",
                          !.returned = Raised("SQLAlchemyError")]
    /\ UNCHANGED <<db0, pc, args, sess, result, spc, sres>>

\* the loop is over: return flights, the list nothing was appended to
GenFinish ==
    /\ gen.pc = "loop"
    /\ gen.created >= gen.num_flights
    /\ gen' = [gen EXCEPT !.pc = "done",
                          !.returned = [type |-> "list", value |-> <<>>]]
    /\ UNCHANGED <<db, db0, pc, args, sess, result, spc, sres>>

\* the caller has taken the result
GenReturn ==
    /\ gen.pc = "done"
    /\ gen' = GenIdle
    /\ UNCHANGED <<db, db0, pc, args, sess, result, spc, sres>>

\* generation starts from an empty table or one that already has rows
InitGen ==
    /\ db \in {<<>>} \cup BookingStores
    /\ db0 = db
    /\ pc = [p \in Procs |-> "idle"]
    /\ args = [p \in Procs |-> None]
    /\ sess = [p \in Procs |-> None]
    /\ result = [p \in Procs |-> None]
    /\ spc = "idle"
    /\ sres = None
    /\ gen = GenIdle

NextGen ==
    \/ \E flight_input \in FlightInputs, num_flights \in NumFlightsInputs :
          GenCall(flight_input, num_flights)
    \/ \E draw \in Draws : GenAdd(draw)
    \/ GenFail
    \/ GenFinish
    \/ GenReturn

SpecGen == InitGen /\ [][NextGen]_vars

(* ------------------- the three operations side by side ----------------- *)
\* the searches submitted while bookings and generation go on
MixedCriteria ==
    { c \in CriteriaInputs :
        /\ c.end_date = 1 /\ c.airline = Nothing /\ c.start_time = Nothing
        /\ c.flight_number = Nothing
        /\ (c.seat_type = Nothing \/ c.max_cost # Nothing) }

\* one booking handler, one search request and one generation request, each
\* serving call after call, interleaved step by step
NextMixed ==
    \/ \E flight_id \in FlightIdInputs :
          BookRead(1, flight_id, "economy", 1)
    \/ BookCommit(1)
    \/ BookReturn(1)
    \/ /\ spc = "idle"
       /\ \E criteria \in MixedCriteria, page \in PageInputs,
             page_size \in PageSizeInputs : Search(criteria, page, page_size)
    \/ SearchReturn
    \/ \E num_flights \in NumFlightsInputs :
          GenCall([origin |-> "JFK", destination |-> "LAX", date |-> 1],
                  num_flights)
    \/ \E draw \in {d \in Draws : d.seats = "low"} : GenAdd(draw)
    \/ GenFail
    \/ GenFinish
    \/ GenReturn

SpecMixed == Init /\ [][NextMixed]_vars

TypeOK ==
    /\ pc \in [Procs -> {"idle", "commit", "done"}]
    /\ DOMAIN db = DOMAIN db0


(* ======================= properties of book_flight ====================== *)
AllDone == \A p \in Procs : pc[p] = "done"

Succeeded(p) == pc[p] = "done" /\ result[p].type = "dict"

\* the stored counter of a class, read column by column
Stored(table, flight_id, seat_type) ==
    IF seat_type = "economy" THEN table[flight_id].open_seats_economy
    ELSE IF seat_type = "business" THEN table[flight_id].open_seats_business
    ELSE table[flight_id].open_seats_first_class

RECURSIVE SumSeats(_)
\* sum of num_seats over a set of handlers
SumSeats(ps) ==
    IF ps = {} THEN 0
    ELSE LET p == CHOOSE q \in ps : TRUE
         IN args[p].num_seats + SumSeats(ps \ {p})

\* the handlers whose finished call booked class seat_type of flight flight_id
Bookers(flight_id, seat_type) ==
    {p \in Procs : /\ Succeeded(p)
                   /\ args[p].flight_id = flight_id
                   /\ args[p].seat_type = seat_type}

\* every handler ran book_flight(flight_id, seat_type, s)
SameCalls(flight_id, seat_type, s) ==
    \A p \in Procs : args[p] = [flight_id |-> flight_id,
                                seat_type |-> seat_type, num_seats |-> s]

\* C1: K concurrent calls for s >= 1 seats of one class of one flight, against
\* a counter N with K*s > N: exactly floor(N/s) calls succeed and the others
\* return 'Not enough <seat_type> seats available.'
C1_ExactlyFloorSucceed ==
    \A flight_id \in DOMAIN db0, seat_type \in SeatTypes, s \in 1..MaxNumSeats :
      LET N == Stored(db0, flight_id, seat_type) IN
      (AllDone /\ SameCalls(flight_id, seat_type, s) /\ NumProcs * s > N)
        => /\ Cardinality({p \in Procs : Succeeded(p)}) = N \div s
           /\ \A p \in Procs :
                ~Succeeded(p) =>
                  /\ result[p].type = "str"
                  /\ result[p].text = "Not enough {} seats available."
                  /\ result[p].seat_type = seat_type

\* C2: once all concurrent calls on one flight and class have finished, the
\* seats of the successful ones sum to at most the counter that existed before
\* they ran, and the stored counter is that initial value minus the sum
C2_NoOversellNoLostUpdate ==
    AllDone =>
      \A flight_id \in DOMAIN db0, seat_type \in SeatTypes :
        LET sold == SumSeats(Bookers(flight_id, seat_type)) IN
        /\ sold <= Stored(db0, flight_id, seat_type)
        /\ Stored(db, flight_id, seat_type)
             = Stored(db0, flight_id, seat_type) - sold

\* C3: in every reachable state each of the three stored seat counters of
\* every flight is >= 0
C3_CountersNonNegative ==
    \A flight_id \in DOMAIN db :
      /\ db[flight_id].open_seats_economy >= 0
      /\ db[flight_id].open_seats_business >= 0
      /\ db[flight_id].open_seats_first_class >= 0

\* two concurrent bookings have drained a counter that was positive
C3_Witness ==
    /\ AllDone
    /\ \A p \in Procs : Succeeded(p) /\ args[p].num_seats > 0
    /\ \E flight_id \in DOMAIN db :
         /\ db[flight_id].open_seats_economy = 0
         /\ db0[flight_id].open_seats_economy > 0

\* C4: no seat counter ever exceeds the value it was created with, for any
\* integer num_seats
C4_NeverAboveCreation ==
    \A flight_id \in DOMAIN db, seat_type \in SeatTypes :
      Stored(db, flight_id, seat_type) <= Stored(db0, flight_id, seat_type)

\* C5: a sequential call on an existing flight and a recognized class succeeds
\* iff the stored counter is >= num_seats; a success lowers the stored counter
\* by exactly num_seats, a failure leaves the table as it is
C5_SequentialBooking ==
    [][\A p \in Procs :
        LET a == args[p]
            b == args'[p] IN
        /\ (pc[p] = "idle" /\ pc'[p] # "idle" /\ b.flight_id \in DOMAIN db
               /\ b.seat_type \in SeatTypes)
             => /\ (pc'[p] = "commit")
                     <=> (Stored(db, b.flight_id, b.seat_type) >= b.num_seats)
                /\ pc'[p] # "commit" => (pc'[p] = "done" /\ db' = db
                                          /\ result'[p].type = "str")
        /\ (pc[p] = "commit" /\ pc'[p] # "commit")
             => /\ pc'[p] = "done"
                /\ result'[p].type = "dict"
                /\ Stored(db', a.flight_id, a.seat_type)
                     = Stored(db, a.flight_id, a.seat_type) - a.num_seats
      ]_vars

\* the scenario's last step: of 3 economy seats one is left, a call for 2 has
\* just failed or one for 1 has just taken the last seat
C5_Witness ==
    /\ db0[1].open_seats_economy = 3
    /\ pc[1] = "done"
    /\ args[1] = [flight_id |-> 1, seat_type |-> "economy", num_seats |-> 1]
    /\ result[1].type = "dict"
    /\ db[1].open_seats_economy = 0
    /\ result[1].flight_info.open_seats_economy = 0

\* C6: a successful call for k seats of class c reports total_cost = k times
\* the stored per-seat cost of class c of that flight, and bookings leave the
\* stored prices as they were
C6_CostCorrect ==
    /\ \A p \in Procs :
         Succeeded(p) =>
           LET a == args[p] IN
           /\ a.seat_type = "economy" =>
                result[p].total_cost
                  = a.num_seats * db[a.flight_id].economy_seat_cost
           /\ a.seat_type = "business" =>
                result[p].total_cost
                  = a.num_seats * db[a.flight_id].business_seat_cost
           /\ a.seat_type = "first_class" =>
                result[p].total_cost
                  = a.num_seats * db[a.flight_id].first_class_cost
    /\ \A flight_id \in DOMAIN db :
         /\ db[flight_id].economy_seat_cost = db0[flight_id].economy_seat_cost
         /\ db[flight_id].business_seat_cost = db0[flight_id].business_seat_cost
         /\ db[flight_id].first_class_cost = db0[flight_id].first_class_cost

\* a booking of 2 business-class seats has returned its cost
C6_Witness ==
    \E p \in Procs :
      /\ Succeeded(p)
      /\ args[p].seat_type = "business"
      /\ args[p].num_seats = 2
      /\ result[p].total_cost > 0

\* C7: a call with a flight id that is not in the table returns
\* 'Flight not found.', whatever seat_type and num_seats are, and leaves the
\* table unchanged
C7_NotFound ==
    [][\A p \in Procs :
        (pc[p] = "idle" /\ pc'[p] # "idle"
           /\ args'[p].flight_id \notin DOMAIN db)
          => /\ pc'[p] = "done"
             /\ result'[p].type = "str"
             /\ result'[p].text = "Flight not found."
             /\ db' = db
      ]_vars

\* a call for an absent id and an unrecognized class has returned
C7_Witness ==
    \E p \in Procs :
      /\ pc[p] = "done"
      /\ args[p].flight_id \notin DOMAIN db
      /\ args[p].seat_type \notin SeatTypes
      /\ args[p].num_seats < 0
      /\ result[p].type = "str"

\* C8: on an existing flight and a recognized class whose counter is below
\* num_seats the call returns 'Not enough <seat_type> seats available.' naming
\* that class, commits nothing and leaves the table unchanged
C8_NotEnough ==
    [][\A p \in Procs :
        LET a == args'[p] IN
        (pc[p] = "idle" /\ pc'[p] # "idle" /\ a.flight_id \in DOMAIN db
           /\ a.seat_type \in SeatTypes
           /\ Stored(db, a.flight_id, a.seat_type) < a.num_seats)
          => /\ pc'[p] = "done"
             /\ result'[p].type = "str"
             /\ result'[p].text = "Not enough {} seats available."
             /\ result'[p].seat_type = a.seat_type
             /\ db' = db
      ]_vars

\* a call for 2 business-class seats has been refused
C8_Witness ==
    \E p \in Procs :
      /\ pc[p] = "done"
      /\ args[p].flight_id \in DOMAIN db
      /\ args[p].seat_type = "business"
      /\ args[p].num_seats = 2
      /\ result[p].type = "str"
      /\ result[p].seat_type = "business"

\* the columns of a row other than the counter of seat_type
Frame(row, seat_type) ==
    [row EXCEPT !.open_seats_economy =
                   IF seat_type = "economy" THEN 0 ELSE @,
                !.open_seats_business =
                   IF seat_type = "business" THEN 0 ELSE @,
                !.open_seats_first_class =
                   IF seat_type = "first_class" THEN 0 ELSE @]

\* a call's commit leaves all but the counter of its class and flight alone
CommitFrame(p) ==
    LET a == args[p] IN
    /\ DOMAIN db' = DOMAIN db
    /\ \A flight_id \in DOMAIN db : flight_id # a.flight_id =>
         db'[flight_id] = db[flight_id]
    /\ Frame(db'[a.flight_id], a.seat_type) = Frame(db[a.flight_id], a.seat_type)

\* C9: a successful call changes exactly one seat counter of exactly the
\* flight with the given id; the other counters, the prices and descriptive
\* columns of that flight and every other row are unchanged, and no row is
\* created or deleted
C9_ExactlyOneCounter ==
    [][\A p \in Procs :
        (pc[p] = "commit" /\ pc'[p] = "done")
          => /\ CommitFrame(p)
             /\ Stored(db', args[p].flight_id, args[p].seat_type)
                  # Stored(db, args[p].flight_id, args[p].seat_type)
      ]_vars

\* the frame of a commit: nothing but the counter of the requested class of
\* the flight with the given id is written
BookingFrame ==
    [][\A p \in Procs :
        (pc[p] = "commit" /\ pc'[p] = "done") => CommitFrame(p)
      ]_vars

\* a booking of first-class seats has committed after another booking on the
\* same flight changed a different counter
BookingFrameWitness ==
    \E p, q \in Procs :
      /\ p # q /\ Succeeded(p) /\ Succeeded(q)
      /\ args[p].flight_id = args[q].flight_id
      /\ args[p].seat_type = "first_class" /\ args[p].num_seats > 0
      /\ args[q].seat_type = "economy" /\ args[q].num_seats > 0
      /\ db[args[p].flight_id].open_seats_first_class
           < db0[args[p].flight_id].open_seats_first_class
      /\ db[args[p].flight_id].open_seats_economy
           < db0[args[p].flight_id].open_seats_economy


(* ====================== properties of search_flights ==================== *)
\* the number of rows of the table that satisfy the request's criteria
MatchCount(criteria) ==
    Cardinality({i \in DOMAIN db : Matches(db[i], criteria)})

\* the least n with n * page_size >= count, for page_size >= 1
Ceil(count, page_size) ==
    CHOOSE n \in 0..count :
      n * page_size >= count /\ (n = 0 \/ (n - 1) * page_size < count)

\* C10: with M >= 1 matching rows and page size P >= 1 every result reports
\* total_pages = ceil(M/P), and a page > total_pages gets an empty flights
\* list, that total_pages, the requested page echoed and the out-of-range
\* message, without an exception
C10_TotalPages ==
    (spc = "done" /\ sres.page_size >= 1 /\ sres.page >= 1
       /\ MatchCount(sres.criteria) >= 1)
      => LET M == MatchCount(sres.criteria)
             r == sres.returned
         IN /\ r.type = "dict"
            /\ r.total_pages = Ceil(M, sres.page_size)
            /\ sres.page > Ceil(M, sres.page_size)
                 => /\ r.flights = <<>>
                    /\ r.page = sres.page
                    /\ "message" \in DOMAIN r
                    /\ r.message = "The requested page exceeds the total number of available pages."

\* page total_pages + 1 = 3 of 3 matching rows, 2 to a page, has been requested
C10_Witness ==
    /\ spc = "done"
    /\ MatchCount(sres.criteria) = 3
    /\ sres.page_size = 2
    /\ sres.page = 3
    /\ sres.returned.type = "dict"
    /\ sres.returned.total_pages = 2
    /\ sres.returned.flights = <<>>

\* C11: a request for page 0 or a negative page is rejected or normalized:
\* it never reaches the database with a negative offset, so it neither fails
\* inside the database nor returns rows under a page number below 1
C11_PageBelowOneRejected ==
    (spc = "done" /\ sres.page < 1 /\ sres.page_size >= 1)
      => /\ sres.returned.type = "dict"
         /\ (sres.returned.flights = <<>> \/ sres.returned.page >= 1)

\* C13: every result has a 'query_results' field equal to the number of
\* flights in its 'flights' list (0 when nothing matches or the page is out
\* of range)
C13_QueryResultsField ==
    (spc = "done" /\ sres.returned.type = "dict")
      => /\ "query_results" \in DOMAIN sres.returned
         /\ sres.returned.query_results = Len(sres.returned.flights)

\* C17: a request with page_size = 0 is rejected or defaulted as a normal
\* outcome: it returns a result value, with or without matching flights, and
\* never fails with a division by zero
C17_PageSizeZeroReturns ==
    (spc = "done" /\ sres.page_size = 0) => sres.returned.type = "dict"

\* an optional criterion was supplied
Supplied(opt) == opt # <<>>

\* the cost of class c of flight f lies in [min_cost, max_cost], an omitted
\* min_cost being 0 and an omitted max_cost unbounded (bounds are in halves)
CostWithin(cost, criteria) ==
    /\ Supplied(criteria.min_cost) => 2 * cost >= criteria.min_cost[1]
    /\ ~Supplied(criteria.min_cost) => cost >= 0
    /\ Supplied(criteria.max_cost) => 2 * cost <= criteria.max_cost[1]

\* flight f satisfies every criterion the request supplies
Satisfies(f, criteria) ==
    /\ (f.departure_time \div MinutesPerDay)
          \in criteria.start_date .. criteria.end_date
    /\ f.origin = criteria.origin /\ f.destination = criteria.destination
    /\ Supplied(criteria.flight_number)
          => f.flight_number = criteria.flight_number[1]
    /\ Supplied(criteria.airline) => f.airline = criteria.airline[1]
    /\ (Supplied(criteria.start_time) /\ Supplied(criteria.end_time))
          => f.departure_time \in criteria.start_time[1] .. criteria.end_time[1]
    /\ criteria.seat_type = <<"economy">>
          => CostWithin(f.economy_seat_cost, criteria)
    /\ criteria.seat_type = <<"business">>
          => CostWithin(f.business_seat_cost, criteria)
    /\ criteria.seat_type = <<"first_class">>
          => CostWithin(f.first_class_cost, criteria)

\* the request's result is made of, and counts, the satisfying flights
FilterConjunction ==
    LET c == sres.criteria
        r == sres.returned
        n == Cardinality({i \in DOMAIN db : Satisfies(db[i], c)})
    IN /\ \A k \in DOMAIN r.flights : Satisfies(r.flights[k], c)
       /\ (r.total_pages = 0) <=> (n = 0)
       /\ sres.page_size >= 1 => r.total_pages = Ceil(n, sres.page_size)

\* C12: every flight returned satisfies all supplied criteria at once (date
\* range, origin, destination, and each supplied optional filter, the class
\* cost within [min_cost, max_cost]), and every flight that satisfies them is
\* counted in the match set, whatever its open seats
C12_FilterConjunction ==
    (spc = "done" /\ sres.returned.type = "dict"
       /\ sres.page >= 1 /\ sres.page_size >= 1) => FilterConjunction

\* the same for requests whose cost bounds are whole numbers
FilterConjunctionWholeBounds ==
    (spc = "done" /\ sres.returned.type = "dict"
       /\ sres.page >= 1 /\ sres.page_size >= 1
       /\ (Supplied(sres.criteria.min_cost)
             => sres.criteria.min_cost[1] % 2 = 0)
       /\ (Supplied(sres.criteria.max_cost)
             => sres.criteria.max_cost[1] % 2 = 0))
      => FilterConjunction

\* the index in the table of the k-th row matching the criteria
KthMatch(criteria, k) ==
    CHOOSE i \in DOMAIN db :
      /\ Matches(db[i], criteria)
      /\ Cardinality({j \in 1..i : Matches(db[j], criteria)}) = k

\* C15: with M matching rows and page size P >= 1, page p in 1..ceil(M/P)
\* holds exactly min(P, M - (p-1)*P) flights, the matching rows from offset
\* (p-1)*P on in table order, so the pages together hold every matching
\* flight exactly once
C15_PageSlices ==
    (spc = "done" /\ sres.page_size >= 1 /\ sres.page >= 1
       /\ sres.page <= Ceil(MatchCount(sres.criteria), sres.page_size))
      => LET M == MatchCount(sres.criteria)
             P == sres.page_size
             offset == (sres.page - 1) * P
             r == sres.returned
         IN /\ r.type = "dict"
            /\ Len(r.flights) = (IF M - offset < P THEN M - offset ELSE P)
            /\ \A k \in 1..Len(r.flights) :
                 r.flights[k] = db[KthMatch(sres.criteria, offset + k)]

\* the last page, 2 of 3, holds the one remaining matching row
C15_Witness ==
    /\ spc = "done"
    /\ MatchCount(sres.criteria) = 3
    /\ sres.page_size = 2
    /\ sres.page = 2
    /\ sres.returned.type = "dict"
    /\ Len(sres.returned.flights) = 1
    /\ sres.returned.flights[1].flight_id = 3

\* C16: on an existing flight a seat_type other than the three classes always
\* fails, for every num_seats (0 and negative included), with the message
\* 'Not enough <seat_type> seats available.' of a real shortage, and changes
\* no counter and commits nothing
C16_UnrecognizedClass ==
    [][\A p \in Procs :
        (pc[p] = "idle" /\ pc'[p] # "idle"
           /\ args'[p].flight_id \in DOMAIN db
           /\ args'[p].seat_type \notin {"economy", "business", "first_class"})
          => /\ pc'[p] = "done"
             /\ result'[p].type = "str"
             /\ result'[p].text = "Not enough {} seats available."
             /\ result'[p].seat_type = args'[p].seat_type
             /\ db' = db
      ]_vars

\* a call for -1 seats of an unrecognized class on an existing flight returned
C16_Witness ==
    \E p \in Procs :
      /\ pc[p] = "done"
      /\ args[p].flight_id \in DOMAIN db
      /\ args[p].seat_type = "premium"
      /\ args[p].num_seats = -1
      /\ result[p].type = "str"
      /\ result[p].seat_type = "premium"

\* what a call gives when it runs alone on the table as it was at the start
ExpectSuccess(a) ==
    /\ a.flight_id \in DOMAIN db0
    /\ a.seat_type \in {"economy", "business", "first_class"}
    /\ Stored(db0, a.flight_id, a.seat_type) >= a.num_seats

\* C18: calls on distinct flight ids are independent: however their steps
\* interleave, each returns what it returns when run alone, in either order,
\* and the final table is the initial one with each successful call's seats
\* taken from its own flight's counter only
C18_DistinctFlightsIndependent ==
    (AllDone /\ \A p, q \in Procs :
                  p # q => args[p].flight_id # args[q].flight_id)
      => /\ \A p \in Procs :
              LET a == args[p] IN
              /\ Succeeded(p) <=> ExpectSuccess(a)
              /\ a.flight_id \notin DOMAIN db0
                   => result[p].text = "Flight not found."
              /\ (a.flight_id \in DOMAIN db0 /\ ~ExpectSuccess(a))
                   => /\ result[p].text = "Not enough {} seats available."
                      /\ db[a.flight_id] = db0[a.flight_id]
              /\ ExpectSuccess(a)
                   => /\ Frame(db[a.flight_id], a.seat_type)
                           = Frame(db0[a.flight_id], a.seat_type)
                      /\ Stored(db, a.flight_id, a.seat_type)
                           = Stored(db0, a.flight_id, a.seat_type) - a.num_seats
                      /\ result[p].flight_info = db[a.flight_id]
         /\ \A flight_id \in DOMAIN db :
              (\A p \in Procs : args[p].flight_id # flight_id)
                => db[flight_id] = db0[flight_id]

\* two bookings on different flights have both gone through
C18_Witness ==
    /\ AllDone
    /\ \A p, q \in Procs : p # q => args[p].flight_id # args[q].flight_id
    /\ \E p, q \in Procs :
         /\ p # q /\ Succeeded(p) /\ Succeeded(q)
         /\ args[p].num_seats > 0 /\ args[q].num_seats > 0
         /\ db[args[p].flight_id] # db0[args[p].flight_id]
         /\ db[args[q].flight_id] # db0[args[q].flight_id]

(* ===================== properties of generate_flights =================== *)
\* row i was created inside the generator's ranges
WellFormedFlight(f) ==
    /\ f.arrival_time > f.departure_time
    /\ f.arrival_time - f.departure_time \in 30..600
    /\ f.departure_time \div (24 * 60) = f.date
    /\ f.open_seats_economy \in 0..200
    /\ f.open_seats_business \in 0..50
    /\ f.open_seats_first_class \in 0..20
    /\ f.economy_seat_cost \in 50..500
    /\ f.business_seat_cost \in 500..1500
    /\ f.first_class_cost \in 1500..3000

\* C14: a call with count N >= 0 that meets no store failure adds exactly N
\* rows, all with the requested origin, destination and date; every row it
\* creates has arrival 30 to 600 minutes after departure, departure on the
\* flight date, and counters and costs within their ranges; the rows that
\* existed stay as they were
C14_Generate ==
    /\ [](/\ (gen.pc = "done" /\ gen.returned.type = "list")
               => Len(db) = gen.base + gen.num_flights
          /\ gen.pc # "idle"
               => \A i \in (gen.base + 1)..Len(db) :
                    /\ db[i].origin = gen.input.origin
                    /\ db[i].destination = gen.input.destination
                    /\ db[i].date = gen.input.date
          /\ \A i \in (Len(db0) + 1)..Len(db) : WellFormedFlight(db[i]))
    /\ [][\A i \in DOMAIN db : i \in DOMAIN db' /\ db'[i] = db[i]]_vars

\* a call for 2 flights has returned after a call that had added a row
C14_Witness ==
    /\ gen.pc = "done"
    /\ gen.returned.type = "list"
    /\ gen.num_flights = 2
    /\ gen.base = 1
    /\ Len(db) = 3
    /\ db[3].arrival_time - db[3].departure_time = 600

\* C19: each flight is written and committed on its own, with no retry: when
\* the write of the k-th flight fails the error reaches the caller, flights
\* 1..k-1 stay in the table and flights k..N are not created
C19_PartialGeneration ==
    /\ [](gen.pc = "done" /\ gen.returned.type = "raise"
            => /\ gen.created < gen.num_flights
               /\ Len(db) = gen.base + gen.created
               /\ \A i \in (gen.base + 1)..Len(db) :
                    db[i].origin = gen.input.origin)
    /\ [][(gen.pc = "loop" /\ gen'.pc = "loop")
            => (Len(db') = Len(db) + 1 /\ gen'.created = gen.created + 1)]_vars
    /\ [][(gen.pc = "done" /\ gen.returned.type = "raise")
            => db' = db]_vars

\* the write of the 2nd of 3 flights has failed: one row was added
C19_Witness ==
    /\ gen.pc = "done"
    /\ gen.returned.type = "raise"
    /\ gen.num_flights = 3
    /\ gen.created = 1
    /\ Len(db) = gen.base + 1

(* ===================== properties across operations ==================== *)
\* C20: search_flights is read-only: whatever the criteria, page and
\* page_size, and whether it returns a page, the no-match result or the
\* out-of-range result, the table is the same after the call as before; an
\* existing row changes only in the commit of a book_flight call
C20_SearchReadOnly ==
    [][/\ (spc = "idle" /\ spc' = "done") => db' = db
       /\ (\E i \in DOMAIN db : i \notin DOMAIN db' \/ db'[i] # db[i])
            => \E p \in Procs : pc[p] = "commit" /\ pc'[p] = "done"
      ]_vars

\* a search has returned a page after a booking took a seat and the
\* generator added a row
C20_Witness ==
    /\ spc = "done"
    /\ sres.returned.type = "dict"
    /\ sres.returned.flights # <<>>
    /\ Len(db) > Len(db0)
    /\ db[1].open_seats_economy < db0[1].open_seats_economy

====
